---- MODULE Spec2Model ----
(***************************************************************************)
(* A state-machine model of the ML Agent of BATCOMPUTER_ (src/ml_agent):   *)
(* ModelManager (models.py), the task hierarchy and TaskOrchestrator       *)
(* (tasks.py) and the MLAgent facade (core.py).                            *)
(*                                                                         *)
(* Python dicts are modelled as sequences of <<key, value>> entries in     *)
(* insertion order, Python objects as cells of a heap addressed by an      *)
(* integer reference, None as the empty set ({} or {v}), time.time() as    *)
(* the variable now.                                                       *)
(***************************************************************************)
EXTENDS Integers, Sequences, FiniteSets, TLC

VARIABLES
    now,             \* the reading of time.time(), in seconds
    max_cache_size,  \* ModelManager.max_cache_size
    models,          \* ModelManager.models: dict name -> BaseModel (entries k, v)
    model_cache,     \* ModelManager.model_cache: dict name -> BaseModel
    objs,            \* the BaseModel instances: reference -> fields
    last,            \* the last call made and what it returned or raised
    tasks,           \* TaskOrchestrator.tasks: the ids in the master registry
    taskObj,         \* the BaseTask instances: task_id -> fields
    task_queue,      \* TaskOrchestrator.task_queue: list of tasks, by id
    running_tasks,   \* TaskOrchestrator.running_tasks: its keys
    completed_tasks, \* TaskOrchestrator.completed_tasks: its keys, in insertion order
    failed_tasks,    \* TaskOrchestrator.failed_tasks: its keys
    syncEx,          \* where the caller of execute_task(task_id) stands, and its task_id
    asyncEx,         \* task_id -> where _execute_task_async(task) stands
    is_running,      \* MLAgent.is_running
    shutdown_event,  \* MLAgent.shutdown_event is set
    gen,             \* where the caller of generate_text / generate_image stands
    memory_thread,   \* the memory_optimization_loop threads started, the last one
                     \* being MLAgent.memory_thread: where each stands
    cleanup_thread,  \* the task_cleanup_loop threads started, likewise
    config,          \* an AgentConfig that has been built
    config_file,     \* what AgentConfig.save wrote
    loaded           \* what from_dict(to_dict()) or from_file returned or raised

mmVars == <<max_cache_size, models, model_cache, objs>>
toVars == <<tasks, taskObj, task_queue, running_tasks, completed_tasks, failed_tasks,
            syncEx, asyncEx>>
agVars == <<is_running, shutdown_event, gen, memory_thread, cleanup_thread>>
cfVars == <<config, config_file, loaded>>
vars == <<now, max_cache_size, models, model_cache, objs, last,
          tasks, taskObj, task_queue, running_tasks, completed_tasks, failed_tasks,
          syncEx, asyncEx, is_running, shutdown_event, gen,
          memory_thread, cleanup_thread,
          config, config_file, loaded>>

----------------------------------------------------------------------------
(* Bounds of the model *)

\* the largest ceiling a ModelManager is run with
MaxCeiling == 2
\* seconds between two readings of the clock
TickSeconds == 200
\* readings of the clock after the first
MaxTicks == 2
\* the first reading of the clock (seconds since the epoch)
StartTime == 1000
\* heap cells per model name
SlotsPerName == 2
\* tasks created in a run that executes them
MaxTasks == 1
\* tasks created in a run of the queue alone
MaxQueued == 2
\* tasks created in a run that only dispatches them
MaxDispatched == 4
\* calls of start() that start the background threads
MaxStarts == 2
\* readings of the clock after the first, in the runs of the orchestrator
MaxTaskTicks == 1

----------------------------------------------------------------------------
(* Configuration: AgentConfig.models *)

ConfigModels ==
    [m1 |-> "text", m2 |-> "image", m3 |-> "text", mx |-> "video"]

ConfigModelNames == DOMAIN ConfigModels

\* list(config.models.keys())
ConfigModelOrder == <<"m1", "m2", "m3", "mx">>

\* ModelManager._create_model: the model types it knows
KnownModelTypes == {"text", "image", "multimodal"}

\* names a caller may pass: the configured ones and one that is not
RequestNames == ConfigModelNames \cup {"nope"}

----------------------------------------------------------------------------
(* Python dicts, in insertion order *)

DictKeys(d) == {d[i].k : i \in 1..Len(d)}

DictHas(d, key) == \E i \in 1..Len(d) : d[i].k = key

DictGet(d, key) == (CHOOSE i \in 1..Len(d) : d[i].k = key)

DictValue(d, key) == d[DictGet(d, key)].v

\* d[key] = value: an existing key keeps its place
DictSet(d, key, value) ==
    IF DictHas(d, key)
    THEN [d EXCEPT ![DictGet(d, key)] = [k |-> key, v |-> value]]
    ELSE Append(d, [k |-> key, v |-> value])

\* del d[key]
DictDel(d, key) ==
    LET i == DictGet(d, key)
    IN  SubSeq(d, 1, i - 1) \o SubSeq(d, i + 1, Len(d))

DictValues(d) == {d[i].v : i \in 1..Len(d)}

----------------------------------------------------------------------------
(* BaseModel instances *)

\* the heap keeps SlotsPerName cells for the instances of each model name:
\* the one the manager holds and those only a caller still holds
ObjIds == 1..(Len(ConfigModelOrder) * SlotsPerName)

\* the cells for the instances of name
CellsOf(name) ==
    LET i == CHOOSE j \in 1..Len(ConfigModelOrder) : ConfigModelOrder[j] = name
    IN  ((i - 1) * SlotsPerName + 1)..(i * SlotsPerName)

\* a heap cell that holds no instance
FreeObj == [name |-> "", is_loaded |-> FALSE, last_used |-> {}]

\* BaseModel.__init__
NewModel(name) == [name |-> name, is_loaded |-> FALSE, last_used |-> {}]

\* BaseModel.unload
Unload(os, ref) == [os EXCEPT ![ref].is_loaded = FALSE]

\* BaseModel.update_usage
UpdateUsage(os, ref, t) == [os EXCEPT ![ref].last_used = {t}]

\* the key of _evict_least_used: x[1].last_used or 0
LastUsedOrZero(o) ==
    IF o.last_used = {} THEN 0 ELSE CHOOSE t \in o.last_used : TRUE

\* the reference a new instance of name gets: its first free cell
Alloc(os, name) ==
    CHOOSE r \in CellsOf(name) :
        os[r] = FreeObj /\ \A q \in CellsOf(name) : q < r => os[q] # FreeObj

HasFree(os, name) == \E r \in CellsOf(name) : os[r] = FreeObj

\* reference counting: a cell no reference in live points to is freed
Collect(os, live) == [r \in ObjIds |-> IF r \in live THEN os[r] ELSE FreeObj]

----------------------------------------------------------------------------
(* ModelManager, as functions of its state S = [models, model_cache, objs] *)

MM == [models |-> models, model_cache |-> model_cache, objs |-> objs]

\* a variant that takes the first entry whatever its key
LruIndexFirst(S) == 1

\* min(self.models.items(), key=...): the first entry with the least key
LruIndex(S) ==
    CHOOSE i \in 1..Len(S.models) :
        /\ \A j \in 1..Len(S.models) :
              LastUsedOrZero(S.objs[S.models[i].v]) <= LastUsedOrZero(S.objs[S.models[j].v])
        /\ \A j \in 1..(i - 1) :
              LastUsedOrZero(S.objs[S.models[j].v]) > LastUsedOrZero(S.objs[S.models[i].v])

\* a variant that copies the entry to the cache and leaves it active
EvictKeepingActive(S) ==
    IF Len(S.models) = 0 THEN S
    ELSE LET e == S.models[LruIndex(S)]
         IN  [models |-> S.models,
              model_cache |-> DictSet(S.model_cache, e.k, e.v),
              objs |-> Unload(S.objs, e.v)]

\* ModelManager._evict_least_used
EvictLeastUsed(S) ==
    IF Len(S.models) = 0 THEN S
    ELSE LET e == S.models[LruIndex(S)]
         IN  [models |-> DictDel(S.models, e.k),
              model_cache |-> DictSet(S.model_cache, e.k, e.v),
              objs |-> Unload(S.objs, e.v)]

\* a variant whose hit on the active set moves the instance to the cache
GetModelDemotes(S, ceiling, name) ==
    IF name \notin ConfigModelNames
    THEN [S |-> S, ref |-> 0, err |-> "ValueError"]
    ELSE IF DictHas(S.models, name)
    THEN [S |-> [S EXCEPT !.models = DictDel(S.models, name),
                          !.model_cache = DictSet(S.model_cache, name,
                                                  DictValue(S.models, name))],
          ref |-> DictValue(S.models, name), err |-> ""]
    ELSE IF DictHas(S.model_cache, name)
    THEN LET ref == DictValue(S.model_cache, name)
         IN  [S |-> [S EXCEPT !.model_cache = DictDel(S.model_cache, name),
                              !.models = DictSet(S.models, name, ref)],
              ref |-> ref, err |-> ""]
    ELSE IF ConfigModels[name] \notin KnownModelTypes
    THEN [S |-> S, ref |-> 0, err |-> "ValueError"]
    ELSE LET ref == Alloc(S.objs, name)
             S1 == [S EXCEPT !.objs[ref] = NewModel(name)]
             S2 == IF Len(S1.models) >= ceiling THEN EvictLeastUsed(S1) ELSE S1
         IN  [S |-> [S2 EXCEPT !.models = DictSet(S2.models, name, ref)],
              ref |-> ref, err |-> ""]

\* a variant that makes room before it creates the instance
GetModelEvictsFirst(S, ceiling, name) ==
    IF name \notin ConfigModelNames
    THEN [S |-> S, ref |-> 0, err |-> "ValueError"]
    ELSE IF DictHas(S.models, name)
    THEN [S |-> S, ref |-> DictValue(S.models, name), err |-> ""]
    ELSE IF DictHas(S.model_cache, name)
    THEN LET ref == DictValue(S.model_cache, name)
         IN  [S |-> [S EXCEPT !.model_cache = DictDel(S.model_cache, name),
                              !.models = DictSet(S.models, name, ref)],
              ref |-> ref, err |-> ""]
    ELSE LET S0 == IF Len(S.models) >= ceiling THEN EvictLeastUsed(S) ELSE S
         IN  IF ConfigModels[name] \notin KnownModelTypes
             THEN [S |-> S0, ref |-> 0, err |-> "ValueError"]
             ELSE LET ref == Alloc(S0.objs, name)
                      S1 == [S0 EXCEPT !.objs[ref] = NewModel(name)]
                  IN  [S |-> [S1 EXCEPT !.models = DictSet(S1.models, name, ref)],
                       ref |-> ref, err |-> ""]

\* a variant that does not look in the cache
GetModelIgnoresCache(S, ceiling, name) ==
    IF name \notin ConfigModelNames
    THEN [S |-> S, ref |-> 0, err |-> "ValueError"]
    ELSE IF DictHas(S.models, name)
    THEN [S |-> S, ref |-> DictValue(S.models, name), err |-> ""]
    ELSE IF ConfigModels[name] \notin KnownModelTypes
    THEN [S |-> S, ref |-> 0, err |-> "ValueError"]
    ELSE LET ref == Alloc(S.objs, name)
             S1 == [S EXCEPT !.objs[ref] = NewModel(name)]
             S2 == IF Len(S1.models) >= ceiling THEN EvictLeastUsed(S1) ELSE S1
         IN  [S |-> [S2 EXCEPT !.models = DictSet(S2.models, name, ref)],
              ref |-> ref, err |-> ""]

\* ModelManager.get_model: [S, ref, err]; ref = 0 when it raises
GetModel(S, ceiling, name) ==
    IF name \notin ConfigModelNames
    THEN [S |-> S, ref |-> 0, err |-> "ValueError"]
    ELSE IF DictHas(S.models, name)
    THEN [S |-> S, ref |-> DictValue(S.models, name), err |-> ""]
    ELSE IF DictHas(S.model_cache, name)
    THEN LET ref == DictValue(S.model_cache, name)
         IN  [S |-> [S EXCEPT !.model_cache = DictDel(S.model_cache, name),
                              !.models = DictSet(S.models, name, ref)],
              ref |-> ref, err |-> ""]
    ELSE IF ConfigModels[name] \notin KnownModelTypes
    THEN [S |-> S, ref |-> 0, err |-> "ValueError"]
    ELSE LET ref == Alloc(S.objs, name)
             S1 == [S EXCEPT !.objs[ref] = NewModel(name)]
             S2 == IF Len(S1.models) >= ceiling THEN EvictLeastUsed(S1) ELSE S1
         IN  [S |-> [S2 EXCEPT !.models = DictSet(S2.models, name, ref)],
              ref |-> ref, err |-> ""]

\* ModelManager.unload_model
UnloadModel(S, name) ==
    IF DictHas(S.models, name)
    THEN [S EXCEPT !.objs = Unload(S.objs, DictValue(S.models, name)),
                   !.models = DictDel(S.models, name)]
    ELSE S

RECURSIVE UnloadEach(_, _)
\* for model_name in names: self.unload_model(model_name)
UnloadEach(S, names) ==
    IF names = <<>> THEN S
    ELSE UnloadEach(UnloadModel(S, Head(names)), Tail(names))

DictKeyList(d) == [i \in 1..Len(d) |-> d[i].k]

\* a variant that unloads the cached instances and keeps them in the cache
UnloadAllKeepsCache(S) ==
    LET S1 == UnloadEach(S, DictKeyList(S.models))
    IN  [S1 EXCEPT !.objs = [r \in ObjIds |->
                                IF r \in DictValues(S1.model_cache)
                                THEN [S1.objs[r] EXCEPT !.is_loaded = FALSE]
                                ELSE S1.objs[r]]]

\* ModelManager.unload_all
UnloadAll(S) ==
    LET S1 == UnloadEach(S, DictKeyList(S.models))
    IN  [S1 EXCEPT !.objs = [r \in ObjIds |->
                                IF r \in DictValues(S1.model_cache)
                                THEN [S1.objs[r] EXCEPT !.is_loaded = FALSE]
                                ELSE S1.objs[r]],
                   !.model_cache = <<>>]

\* optimize_memory: threshold = 300
IdleThreshold == 300

\* the test of optimize_memory: model.last_used and current_time - model.last_used > threshold
IsIdle(o, t) == o.last_used # {} /\ t - LastUsedOrZero(o) > IdleThreshold

RECURSIVE OptimizeEach(_, _, _)
\* the loop of optimize_memory over list(self.models.keys())
OptimizeEach(S, names, t) ==
    IF names = <<>> THEN S
    ELSE LET n == Head(names)
             S1 == IF IsIdle(S.objs[DictValue(S.models, n)], t)
                   THEN UnloadModel(S, n) ELSE S
         IN  OptimizeEach(S1, Tail(names), t)

\* ModelManager.optimize_memory
\* a variant that moves the idle models to the cache, still loaded
OptimizeMemoryToCache(S, t) ==
    [S EXCEPT !.models = SelectSeq(S.models, LAMBDA e : ~IsIdle(S.objs[e.v], t)),
              !.model_cache = S.model_cache \o
                                 SelectSeq(S.models, LAMBDA e : IsIdle(S.objs[e.v], t))]

OptimizeMemory(S, t) == OptimizeEach(S, DictKeyList(S.models), t)

\* ModelManager.get_loaded_models
GetLoadedModels(S) == DictKeyList(S.models)

\* what a model call can do: succeed, fail in load(), fail in the pipeline
Outcomes == {"ok", "load_error", "inference_error"}

\* TextModel.generate_text / ImageModel.generate_image on instance ref:
\* load() if not loaded, update_usage(), the pipeline call
Generate(os, ref, outcome, t) ==
    IF ~os[ref].is_loaded /\ outcome = "load_error" THEN os
    ELSE UpdateUsage([os EXCEPT ![ref].is_loaded = TRUE], ref, t)

\* whether the call raises
GenerateRaises(os, ref, outcome) ==
    \/ ~os[ref].is_loaded /\ outcome = "load_error"
    \/ outcome = "inference_error"

----------------------------------------------------------------------------
(* What is recorded of the last call *)

Call(op, name, id, err, val) ==
    [op |-> op, name |-> name, id |-> id, arg |-> {}, err |-> err, val |-> val,
     res |-> {}]

NoCall == Call("", "", 0, "", 0)

\* the references the manager holds
ManagerRefs(S) == DictValues(S.models) \cup DictValues(S.model_cache)

----------------------------------------------------------------------------
(* Tasks: AgentConfig.tasks and the BaseTask instances *)

ConfigTasks ==
    [text_generation  |-> [task_type |-> "text_generation", model_name |-> "m1"],
     image_generation |-> [task_type |-> "image_generation", model_name |-> "m2"],
     classify         |-> [task_type |-> "classification", model_name |-> "m1"],
     summarize        |-> [task_type |-> "summarization", model_name |-> "m1"]]

ConfigTaskNames == DOMAIN ConfigTasks

\* TaskOrchestrator._create_task_instance: the task types it knows
KnownTaskTypes == {"text_generation", "image_generation", "classification"}

\* names a caller may pass to create_task
RequestTaskNames == ConfigTaskNames \cup {"nope"}

\* str(uuid.uuid4()): the n-th task created has id n
TaskIds ==
    1..(CHOOSE n \in {MaxTasks, MaxQueued, MaxDispatched} :
           \A m \in {MaxTasks, MaxQueued, MaxDispatched} : m <= n)

\* ids a caller may pass: those of tasks and one no task has
RequestIds == 0..(IF MaxQueued > MaxTasks THEN MaxQueued ELSE MaxTasks)

\* TaskStatus
Terminal == {"completed", "failed", "cancelled"}

\* no BaseTask instance (not created yet, or no longer referenced)
NoTask == [name |-> "", status |-> "none", result |-> {}, end_time |-> {}]

\* BaseTask.__init__
NewTask(name) ==
    [name |-> name, status |-> "pending", result |-> {}, end_time |-> {}]

\* TaskResult(task_id, status, output=..., error=...)
TaskResult(id, status, output, error) ==
    [task_id |-> id, status |-> status, output |-> output, error |-> error]

\* execute: self.status = TaskStatus.RUNNING
TaskRun(t) == [t EXCEPT !.status = "running"]

\* the except branch of execute: status FAILED, end_time, result (self.error
\* is the error of the result)
TaskFail(t, id, msg, time) ==
    [t EXCEPT !.status = "failed", !.end_time = {time},
              !.result = {TaskResult(id, "failed", "", msg)}]

\* the end of the try branch of execute: end_time, status COMPLETED, result
TaskComplete(t, id, time) ==
    [t EXCEPT !.status = "completed", !.end_time = {time},
              !.result = {TaskResult(id, "completed", "output", "")}]

\* the kwargs a caller passes to execute_task: prompt='hello', prompt='  ',
\* prompt=5, none at all, text='hello'
Kwargs == {"prompt", "blank_prompt", "non_string_prompt", "no_prompt", "text"}

\* validate_input(**kwargs) of the three task classes: str(e) of the
\* ValueError it raises, "" when it returns True
ValidationMessage(task_type, kw) ==
    IF task_type = "classification"
    THEN IF kw = "text" THEN ""
         ELSE "Must provide either 'text' or 'image' input"
    ELSE IF kw \in {"no_prompt", "text"} THEN "Missing required field: prompt"
    ELSE IF kw \in {"blank_prompt", "non_string_prompt"}
    THEN "Prompt must be a non-empty string"
    ELSE ""

ValidInput(task_type, kw) == ValidationMessage(task_type, kw) = ""

\* a caller of execute_task that is not inside the call
IdleEx == [pc |-> "idle", id |-> 0, ref |-> 0, kw |-> ""]

\* the instances a caller inside execute holds
HandleRefs(sx) == {sx.ref} \ {0}

\* the tasks something still refers to
TaskRefs(reg, queue, running, completed, failed, sx, ax) ==
    reg \cup {queue[i] : i \in 1..Len(queue)} \cup running
        \cup {completed[i] : i \in 1..Len(completed)} \cup failed
        \cup {i \in TaskIds : sx.id = i \/ ax[i] # "none"}

\* reference counting: a task nothing refers to is gone
CollectTasks(to, live) == [i \in TaskIds |-> IF i \in live THEN to[i] ELSE
                              IF to[i].status = "none" THEN NoTask
                              ELSE [NoTask EXCEPT !.status = "gone"]]

\* list.remove / membership for the completed bucket
SeqHas(q, x) == \E i \in 1..Len(q) : q[i] = x

SeqSet(q) == {q[i] : i \in 1..Len(q)}

\* d[x] = task on a dict given by its keys: a key already there keeps its place
SeqPut(q, x) == IF SeqHas(q, x) THEN q ELSE Append(q, x)

\* del d[x]
SeqDel(q, x) == SelectSeq(q, LAMBDA y : y # x)

----------------------------------------------------------------------------
(* The operations of a ModelManager, called one after another *)

SetManager(S, handles) ==
    /\ models' = S.models
    /\ model_cache' = S.model_cache
    /\ objs' = Collect(S.objs, ManagerRefs(S) \cup handles)

\* time passes
Tick ==
    /\ now < StartTime + MaxTicks * TickSeconds
    /\ now' = now + TickSeconds
    /\ last' = NoCall
    /\ UNCHANGED <<cfVars, agVars, mmVars, toVars>>

\* time passes
TaskTick ==
    /\ now < StartTime + MaxTaskTicks * TickSeconds
    /\ now' = now + TickSeconds
    /\ last' = NoCall
    /\ UNCHANGED <<cfVars, agVars, mmVars, toVars>>

\* get_model(name) constructs a new instance
Constructs(S, name) ==
    /\ name \in ConfigModelNames
    /\ ~DictHas(S.models, name)
    /\ ~DictHas(S.model_cache, name)
    /\ ConfigModels[name] \in KnownModelTypes

\* model_manager.get_model(name)
MMGetModel(name) ==
    /\ Constructs(MM, name) => HasFree(objs, name)
    /\ LET r == GetModel(MM, max_cache_size, name)
       IN  /\ SetManager(r.S, HandleRefs(syncEx))
           /\ last' = Call("get_model", name, 0, r.err, r.ref)
    /\ UNCHANGED <<cfVars, agVars, now, max_cache_size, toVars>>

\* model_manager.get_model(name).generate_text(...): the instance is used
MMGenerate(name, outcome) ==
    /\ DictHas(models, name)
    /\ LET ref == DictValue(models, name)
       IN  /\ objs' = Generate(objs, ref, outcome, now)
           /\ last' = NoCall
    /\ UNCHANGED <<cfVars, agVars, now, max_cache_size, models, model_cache, toVars>>

\* model_manager.unload_model(name)
MMUnloadModel(name) ==
    /\ LET S == UnloadModel(MM, name)
       IN  SetManager(S, HandleRefs(syncEx))
    /\ last' = Call("unload_model", name, 0, "", 0)
    /\ UNCHANGED <<cfVars, agVars, now, max_cache_size, toVars>>

\* model_manager.unload_all()
MMUnloadAll ==
    /\ LET S == UnloadAll(MM)
       IN  SetManager(S, HandleRefs(syncEx))
    /\ last' = Call("unload_all", "", 0, "", 0)
    /\ UNCHANGED <<cfVars, agVars, now, max_cache_size, toVars>>

\* model_manager.optimize_memory()
MMOptimizeMemory ==
    /\ LET S == OptimizeMemory(MM, now)
       IN  /\ SetManager(S, HandleRefs(syncEx))
           /\ last' = [Call("optimize_memory", "", 0, "", 0) EXCEPT
                          !.arg = {n \in ConfigModelNames :
                                      DictHas(models, n) /\ ~DictHas(S.models, n)}]
    /\ UNCHANGED <<cfVars, agVars, now, max_cache_size, toVars>>

\* ModelManager.__init__
InitManager ==
    /\ now = StartTime
    /\ max_cache_size \in 1..MaxCeiling
    /\ models = <<>>
    /\ model_cache = <<>>
    /\ objs = [r \in ObjIds |-> FreeObj]
    /\ last = NoCall

\* TaskOrchestrator.__init__
InitOrchestrator ==
    /\ tasks = {}
    /\ taskObj = [i \in TaskIds |-> NoTask]
    /\ task_queue = <<>>
    /\ running_tasks = {}
    /\ completed_tasks = <<>>
    /\ failed_tasks = {}
    /\ syncEx = IdleEx
    /\ asyncEx = [i \in TaskIds |-> "none"]

\* a call of generate_text / generate_image that has not begun
IdleGen == [pc |-> "idle", id |-> 0]

\* MLAgent.__init__
InitAgent ==
    /\ is_running = FALSE
    /\ shutdown_event = FALSE
    /\ gen = IdleGen
    /\ memory_thread = <<>>
    /\ cleanup_thread = <<>>

\* no AgentConfig built, nothing saved, nothing loaded
NoConfig == [err |-> "none"]

InitConfig ==
    /\ config = NoConfig
    /\ config_file = NoConfig
    /\ loaded = NoConfig

InitModels == InitManager /\ InitOrchestrator /\ InitAgent /\ InitConfig

NextModels ==
    \/ Tick
    \/ \E name \in RequestNames : MMGetModel(name)
    \/ \E name \in ConfigModelNames, outcome \in Outcomes : MMGenerate(name, outcome)
    \/ \E name \in ConfigModelNames : MMUnloadModel(name)
    \/ MMUnloadAll
    \/ MMOptimizeMemory

\* a ModelManager driven by one caller
SpecModels == InitModels /\ [][NextModels]_vars

----------------------------------------------------------------------------
(* TaskOrchestrator *)

\* TaskOrchestrator.__init__: self.max_concurrent_tasks = 3
max_concurrent_tasks == 3

\* the id the next task gets
FreshId == CHOOSE i \in TaskIds :
              taskObj[i].status = "none" /\ \A j \in 1..(i - 1) : taskObj[j].status # "none"

\* the orchestrator's collections and the callers inside it, after a step
SetOrchestrator(reg, to, queue, running, completed, failed, sx, ax) ==
    /\ tasks' = reg
    /\ task_queue' = queue
    /\ running_tasks' = running
    /\ completed_tasks' = completed
    /\ failed_tasks' = failed
    /\ syncEx' = sx
    /\ asyncEx' = ax
    /\ taskObj' = CollectTasks(to, TaskRefs(reg, queue, running, completed, failed, sx, ax))

\* a variant that puts the new task at the head of the queue
CreateTaskAtHead(name) ==
    /\ IF name \notin ConfigTaskNames
       THEN /\ last' = Call("create_task", name, 0, "ValueError", 0)
            /\ UNCHANGED toVars
       ELSE IF ConfigTasks[name].task_type \notin KnownTaskTypes
       THEN /\ last' = Call("create_task", name, 0, "ValueError", 0)
            /\ UNCHANGED toVars
       ELSE /\ \E i \in TaskIds : taskObj[i].status = "none"
            /\ tasks' = tasks \cup {FreshId}
            /\ taskObj' = [taskObj EXCEPT ![FreshId] = NewTask(name)]
            /\ task_queue' = <<FreshId>> \o task_queue
            /\ last' = Call("create_task", name, FreshId, "", 0)
            /\ UNCHANGED <<running_tasks, completed_tasks, failed_tasks, syncEx, asyncEx>>
    /\ UNCHANGED <<cfVars, agVars, now, mmVars>>

\* a variant that registers a task before it finds the task type unknown
CreateTaskRegistersFirst(name) ==
    /\ IF name \notin ConfigTaskNames
       THEN /\ last' = Call("create_task", name, 0, "ValueError", 0)
            /\ UNCHANGED toVars
       ELSE /\ \E i \in TaskIds : taskObj[i].status = "none"
            /\ tasks' = tasks \cup {FreshId}
            /\ taskObj' = [taskObj EXCEPT ![FreshId] = NewTask(name)]
            /\ task_queue' = Append(task_queue, FreshId)
            /\ last' = IF ConfigTasks[name].task_type \notin KnownTaskTypes
                       THEN Call("create_task", name, 0, "ValueError", 0)
                       ELSE Call("create_task", name, FreshId, "", 0)
            /\ UNCHANGED <<running_tasks, completed_tasks, failed_tasks, syncEx, asyncEx>>
    /\ UNCHANGED <<cfVars, agVars, now, mmVars>>

\* TaskOrchestrator.create_task(task_name)
CreateTask(name) ==
    /\ IF name \notin ConfigTaskNames
       THEN /\ last' = Call("create_task", name, 0, "ValueError", 0)
            /\ UNCHANGED toVars
       ELSE IF ConfigTasks[name].task_type \notin KnownTaskTypes
       THEN /\ last' = Call("create_task", name, 0, "ValueError", 0)
            /\ UNCHANGED toVars
       ELSE /\ \E i \in TaskIds : taskObj[i].status = "none"
            /\ tasks' = tasks \cup {FreshId}
            /\ taskObj' = [taskObj EXCEPT ![FreshId] = NewTask(name)]
            /\ task_queue' = Append(task_queue, FreshId)
            /\ last' = Call("create_task", name, FreshId, "", 0)
            /\ UNCHANGED <<running_tasks, completed_tasks, failed_tasks, syncEx, asyncEx>>
    /\ UNCHANGED <<cfVars, agVars, now, mmVars>>

\* a variant that files every result in completed_tasks
FileAsCompleted(id, t) ==
    /\ SetOrchestrator(tasks, [taskObj EXCEPT ![id] = t], task_queue,
                       running_tasks \ {id}, SeqPut(completed_tasks, id), failed_tasks,
                       IdleEx, asyncEx)
    /\ last' = [Call("execute_task", "", id, "", 0) EXCEPT !.res = t.result]

\* execute_task, "Move to appropriate collection", and its return of result
FileAndReturn(id, t) ==
    LET to == [taskObj EXCEPT ![id] = t]
        st == (CHOOSE r \in t.result : TRUE).status
        sx == IdleEx
    IN  /\ SetOrchestrator(tasks, to, task_queue, running_tasks \ {id},
                           IF st = "completed" THEN SeqPut(completed_tasks, id)
                                               ELSE completed_tasks,
                           IF st = "failed" THEN failed_tasks \cup {id}
                                            ELSE failed_tasks,
                           sx, asyncEx)
        /\ last' = [Call("execute_task", "", id, "", 0) EXCEPT !.res = t.result]

\* TaskOrchestrator.execute_task(task_id, **kwargs), up to the first statement
\* of task.execute: the checks, then self.status = TaskStatus.RUNNING
ExecuteTask(id, kw) ==
    /\ syncEx.pc = "idle"
    /\ IF id \notin tasks
       THEN /\ last' = Call("execute_task", "", id, "ValueError", 0)
            /\ UNCHANGED toVars
       ELSE IF taskObj[id].status = "running"
       THEN /\ last' = Call("execute_task", "", id, "RuntimeError", 0)
            /\ UNCHANGED toVars
       ELSE IF taskObj[id].status \in {"completed", "failed"}
       THEN /\ last' = [Call("execute_task", "", id, "", 0) EXCEPT
                           !.res = taskObj[id].result]
            /\ UNCHANGED toVars
       ELSE /\ taskObj' = [taskObj EXCEPT ![id] = TaskRun(@)]
            /\ syncEx' = [pc |-> "started", id |-> id, ref |-> 0, kw |-> kw]
            /\ last' = NoCall
            /\ UNCHANGED <<tasks, task_queue, running_tasks, completed_tasks,
                           failed_tasks, asyncEx>>
    /\ UNCHANGED <<cfVars, agVars, now, mmVars>>

\* a variant that validates the input after get_model
ExecuteGetModelFirst(id) ==
    /\ syncEx.pc = "started" /\ syncEx.id = id
    /\ LET name == ConfigTasks[taskObj[id].name].model_name
           msg == ValidationMessage(ConfigTasks[taskObj[id].name].task_type, syncEx.kw)
           r == GetModel(MM, max_cache_size, name)
       IN  /\ Constructs(MM, name) => HasFree(objs, name)
           /\ IF r.err # ""
              THEN /\ FileAndReturn(id, TaskFail(taskObj[id], id, r.err, now))
                   /\ UNCHANGED <<models, model_cache, objs>>
              ELSE IF msg # ""
              THEN /\ FileAndReturn(id, TaskFail(taskObj[id], id, msg, now))
                   /\ SetManager(r.S, HandleRefs(syncEx))
              ELSE /\ syncEx' = [syncEx EXCEPT !.pc = "got_model", !.ref = r.ref]
                   /\ SetManager(r.S, HandleRefs(syncEx) \cup {r.ref})
                   /\ last' = NoCall
                   /\ UNCHANGED <<tasks, taskObj, task_queue, running_tasks,
                                  completed_tasks, failed_tasks, asyncEx>>
    /\ UNCHANGED <<cfVars, agVars, now, max_cache_size>>

\* task.execute(**kwargs) inside execute_task: validate_input(**kwargs), then
\* self.model_manager.get_model(self.config.model_name)
ExecuteGetModel(id) ==
    /\ syncEx.pc = "started" /\ syncEx.id = id
    /\ IF ~ValidInput(ConfigTasks[taskObj[id].name].task_type, syncEx.kw)
       THEN /\ FileAndReturn(id, TaskFail(taskObj[id], id,
                    ValidationMessage(ConfigTasks[taskObj[id].name].task_type,
                                      syncEx.kw), now))
            /\ UNCHANGED <<models, model_cache, objs>>
       ELSE LET name == ConfigTasks[taskObj[id].name].model_name
                r == GetModel(MM, max_cache_size, name)
            IN  /\ Constructs(MM, name) => HasFree(objs, name)
                /\ IF r.err # ""
                   THEN /\ FileAndReturn(id, TaskFail(taskObj[id], id, r.err, now))
                        /\ UNCHANGED <<models, model_cache, objs>>
                   ELSE /\ syncEx' = [syncEx EXCEPT !.pc = "got_model", !.ref = r.ref]
                        /\ SetManager(r.S, HandleRefs(syncEx) \cup {r.ref})
                        /\ last' = NoCall
                        /\ UNCHANGED <<tasks, taskObj, task_queue, running_tasks,
                                       completed_tasks, failed_tasks, asyncEx>>
    /\ UNCHANGED <<cfVars, agVars, now, max_cache_size>>

\* task.execute(**kwargs) inside execute_task: model.generate_text(prompt) and
\* the rest of execute, then the filing of execute_task. ClassificationTask
\* reads model.classify_text, an attribute no model class has.
ExecuteGenerate(id, outcome) ==
    /\ syncEx.pc = "got_model" /\ syncEx.id = id
    /\ LET ref == syncEx.ref
           os == Generate(objs, ref, outcome, now)
       IN  IF ConfigTasks[taskObj[id].name].task_type = "classification"
           THEN /\ objs' = Collect(objs, ManagerRefs(MM))
                /\ FileAndReturn(id, TaskFail(taskObj[id], id, "AttributeError", now))
           ELSE /\ objs' = Collect(os, ManagerRefs(MM))
                /\ IF GenerateRaises(objs, ref, outcome)
                   THEN FileAndReturn(id, TaskFail(taskObj[id], id, "Exception", now))
                   ELSE FileAndReturn(id, TaskComplete(taskObj[id], id, now))
    /\ UNCHANGED <<cfVars, agVars, now, max_cache_size, models, model_cache>>

RECURSIVE Drain(_, _, _, _)
\* the loop of execute_tasks_async: pop(0), running_tasks[task_id] = task,
\* asyncio.create_task(self._execute_task_async(task))
Drain(queue, running, ax, workers) ==
    IF queue # <<>> /\ Cardinality(running) < workers
    THEN Drain(Tail(queue), running \cup {Head(queue)},
               [ax EXCEPT ![Head(queue)] = "scheduled"], workers)
    ELSE [queue |-> queue, running |-> running, ax |-> ax]

\* TaskOrchestrator.execute_tasks_async(max_workers): max_workers is {} for None
ExecuteTasksAsync(max_workers) ==
    LET workers == IF max_workers = {} THEN max_concurrent_tasks
                   ELSE CHOOSE n \in max_workers : TRUE
        d == Drain(task_queue, running_tasks, asyncEx, workers)
    IN  /\ task_queue' = d.queue
        /\ running_tasks' = d.running
        /\ asyncEx' = d.ax
        /\ last' = [Call("execute_tasks_async", "", 0, "", 0) EXCEPT !.arg = max_workers]
        /\ UNCHANGED <<cfVars, agVars, now, mmVars, tasks, taskObj, completed_tasks, failed_tasks, syncEx>>

\* _execute_task_async: the executor thread enters task.execute(),
\* self.status = TaskStatus.RUNNING
AsyncStart(id) ==
    /\ asyncEx[id] = "scheduled"
    /\ asyncEx' = [asyncEx EXCEPT ![id] = "started"]
    /\ taskObj' = [taskObj EXCEPT ![id] = TaskRun(@)]
    /\ last' = NoCall
    /\ UNCHANGED <<cfVars, agVars, now, mmVars, tasks, task_queue, running_tasks, completed_tasks,
                   failed_tasks, syncEx>>

\* task.execute() in the executor: run_in_executor passes no kwargs, so
\* validate_input raises and the except branch files a failed result
AsyncExecute(id) ==
    /\ asyncEx[id] = "started"
    /\ asyncEx' = [asyncEx EXCEPT ![id] = "returned"]
    /\ taskObj' = [taskObj EXCEPT ![id] =
                      TaskFail(@, id, ValidationMessage(
                                  ConfigTasks[taskObj[id].name].task_type, "no_prompt"),
                               now)]
    /\ last' = NoCall
    /\ UNCHANGED <<cfVars, agVars, now, mmVars, tasks, task_queue, running_tasks, completed_tasks,
                   failed_tasks, syncEx>>

\* _execute_task_async after the await: "Update collections"
AsyncFile(id) ==
    /\ asyncEx[id] = "returned"
    /\ SetOrchestrator(tasks, taskObj, task_queue, running_tasks \ {id},
                       completed_tasks, failed_tasks \cup {id},
                       syncEx, [asyncEx EXCEPT ![id] = "none"])
    /\ last' = NoCall
    /\ UNCHANGED <<cfVars, agVars, now, mmVars>>

\* a variant that leaves the cancelled task in running_tasks
CancelTaskKeepsRunning(id) ==
    /\ IF id \notin running_tasks
       THEN /\ last' = Call("cancel_task", "", id, "", 0)
            /\ UNCHANGED toVars
       ELSE /\ taskObj' = [taskObj EXCEPT ![id].status = "cancelled"]
            /\ completed_tasks' = SeqPut(completed_tasks, id)
            /\ last' = Call("cancel_task", "", id, "", 1)
            /\ UNCHANGED <<tasks, task_queue, running_tasks, failed_tasks, syncEx, asyncEx>>
    /\ UNCHANGED <<cfVars, agVars, now, mmVars>>

\* TaskOrchestrator.cancel_task(task_id): val is 1 for True, 0 for False
CancelTask(id) ==
    /\ IF id \notin running_tasks
       THEN /\ last' = Call("cancel_task", "", id, "", 0)
            /\ UNCHANGED toVars
       ELSE /\ taskObj' = [taskObj EXCEPT ![id].status = "cancelled"]
            /\ completed_tasks' = SeqPut(completed_tasks, id)
            /\ running_tasks' = running_tasks \ {id}
            /\ last' = Call("cancel_task", "", id, "", 1)
            /\ UNCHANGED <<tasks, task_queue, failed_tasks, syncEx, asyncEx>>
    /\ UNCHANGED <<cfVars, agVars, now, mmVars>>

\* the test of clear_completed_tasks:
\* max_age is None or (task.end_time and current_time - task.end_time > max_age)
IsOld(t, max_age, time) ==
    \/ max_age = {}
    \/ /\ t.end_time # {}
       /\ time - (CHOOSE e \in t.end_time : TRUE) > (CHOOSE a \in max_age : TRUE)

RECURSIVE ClearEach(_, _, _, _)
\* the loop of clear_completed_tasks over list(self.completed_tasks.keys());
\* del self.tasks[task_id] raises KeyError when the registry has no such id
ClearEach(ids, st, max_age, time) ==
    IF ids = <<>> \/ st.err # "" THEN st
    ELSE LET id == Head(ids)
         IN  IF ~IsOld(taskObj[id], max_age, time)
             THEN ClearEach(Tail(ids), st, max_age, time)
             ELSE IF id \notin st.reg
             THEN [st EXCEPT !.completed = SeqDel(@, id), !.err = "KeyError"]
             ELSE ClearEach(Tail(ids),
                            [st EXCEPT !.completed = SeqDel(@, id),
                                       !.reg = @ \ {id},
                                       !.count = @ + 1],
                            max_age, time)

\* TaskOrchestrator.clear_completed_tasks(max_age): max_age is {} for None
ClearCompleted(max_age) ==
    LET st == ClearEach(completed_tasks,
                        [completed |-> completed_tasks, reg |-> tasks, count |-> 0,
                         err |-> ""],
                        max_age, now)
    IN  /\ SetOrchestrator(st.reg, taskObj, task_queue, running_tasks, st.completed,
                           failed_tasks, syncEx, asyncEx)
        /\ last' = [Call("clear_completed_tasks", "", 0, st.err,
                         IF st.err = "" THEN st.count ELSE 0) EXCEPT !.arg = max_age]

\* a call of clear_completed_tasks by a caller of the orchestrator
ClearCompletedTasks(max_age) ==
    /\ ClearCompleted(max_age)
    /\ UNCHANGED <<cfVars, agVars, now, mmVars>>

\* the max_age values callers pass: None, 0, one tick
MaxAges == {{}, {0}, {TickSeconds}}

\* create_task(name) constructs a task
Creatable(name) ==
    name \in ConfigTaskNames /\ ConfigTasks[name].task_type \in KnownTaskTypes

\* the number of tasks created so far
Created == Cardinality({i \in TaskIds : taskObj[i].status # "none"})

NextTasks ==
    \/ TaskTick
    \/ \E name \in RequestTaskNames :
          (Creatable(name) => Created < MaxTasks) /\ CreateTask(name)
    \/ \E id \in RequestIds, kw \in Kwargs : ExecuteTask(id, kw)
    \/ \E id \in TaskIds : ExecuteGetModel(id)
    \/ \E id \in TaskIds, outcome \in Outcomes : ExecuteGenerate(id, outcome)
    \/ ExecuteTasksAsync({})
    \/ \E id \in TaskIds : AsyncStart(id)
    \/ \E id \in TaskIds : AsyncExecute(id)
    \/ \E id \in TaskIds : AsyncFile(id)
    \/ \E id \in RequestIds : CancelTask(id)
    \/ \E max_age \in MaxAges : ClearCompletedTasks(max_age)

\* a TaskOrchestrator with its ModelManager: callers of execute_task, the event
\* loop of execute_tasks_async and its executor threads
SpecTasks == InitModels /\ [][NextTasks]_vars

\* the max_workers values callers pass: None, 1
MaxWorkers == {{}, {1}}

NextQueue ==
    \/ TaskTick
    \/ \E name \in RequestTaskNames :
          (Creatable(name) => Created < MaxQueued) /\ CreateTask(name)
    \/ \E max_workers \in MaxWorkers : ExecuteTasksAsync(max_workers)
    \/ \E id \in TaskIds : AsyncStart(id)
    \/ \E id \in TaskIds : AsyncExecute(id)
    \/ \E id \in TaskIds : AsyncFile(id)
    \/ \E id \in RequestIds : CancelTask(id)
    \/ \E max_age \in MaxAges : ClearCompletedTasks(max_age)

\* a TaskOrchestrator whose tasks are created, dispatched by execute_tasks_async,
\* cancelled and cleared, and never passed to execute_task
\* the ModelManager is not called in these runs; its ceiling is the largest
InitQueue == InitModels /\ max_cache_size = MaxCeiling

SpecQueue == InitQueue /\ [][NextQueue]_vars

\* the max_workers values callers pass: None, and more than max_concurrent_tasks
DispatchWorkers == {{}, {MaxDispatched}}

NextDispatch ==
    \/ (Created < MaxDispatched) /\ CreateTask("text_generation")
    \/ \E max_workers \in DispatchWorkers : ExecuteTasksAsync(max_workers)
    \/ \E id \in TaskIds : AsyncStart(id)
    \/ \E id \in TaskIds : AsyncExecute(id)
    \/ \E id \in TaskIds : AsyncFile(id)
    \/ \E id \in TaskIds : CancelTask(id)

\* a TaskOrchestrator whose text generation tasks are created, dispatched by
\* execute_tasks_async and cancelled, at one reading of the clock
SpecDispatch == InitQueue /\ [][NextDispatch]_vars

----------------------------------------------------------------------------
(* MLAgent: start, shutdown, its background threads, generate_text/_image *)

\* _preload_models: list(self.config.models.keys())[:3]
PreloadCount == 3
\* task_cleanup_loop: clear_completed_tasks(max_age=3600)
CleanupMaxAge == 3600

\* threading.Thread(target=..., daemon=True).start(): the thread is at the test
\* of its while; err is what the except of its last iteration caught
NewThread == [pc |-> "test", err |-> ""]

\* while not self.shutdown_event.is_set(): into the try, or out of the loop
WhileTest(th) ==
    IF shutdown_event THEN [th EXCEPT !.pc = "done"]
    ELSE [pc |-> "sleep", err |-> ""]

\* a variant in which an exception ends the loop
AfterBodyRaises(err) == [pc |-> IF err = "" THEN "test" ELSE "done", err |-> err]

\* the end of the body of the while: the except logs err, and the loop goes
\* back to its test
AfterBody(err) == [pc |-> "test", err |-> err]

\* what the background threads can meet in optimize_memory() of utils
LoopOutcomes == {"ok", "error"}

ModelsToPreload ==
    SubSeq(ConfigModelOrder, 1,
           IF Len(ConfigModelOrder) < PreloadCount THEN Len(ConfigModelOrder)
           ELSE PreloadCount)

RECURSIVE PreloadEach(_, _, _)
\* ModelManager.preload_models: get_model for each name, exceptions logged
PreloadEach(S, ceiling, names) ==
    IF names = <<>> THEN S
    ELSE PreloadEach(GetModel(S, ceiling, Head(names)).S, ceiling, Tail(names))

RECURSIVE PreloadFits(_, _, _)
\* the heap has a cell for each instance preload_models constructs
PreloadFits(S, ceiling, names) ==
    IF names = <<>> THEN TRUE
    ELSE /\ Constructs(S, Head(names)) => HasFree(S.objs, Head(names))
         /\ PreloadFits(GetModel(S, ceiling, Head(names)).S, ceiling, Tail(names))

\* MLAgent.start()
Start ==
    /\ IF is_running
       THEN UNCHANGED <<models, model_cache, objs, is_running, memory_thread,
                        cleanup_thread>>
       ELSE /\ PreloadFits(MM, max_cache_size, ModelsToPreload)
            /\ SetManager(PreloadEach(MM, max_cache_size, ModelsToPreload),
                          HandleRefs(syncEx))
            /\ memory_thread' = Append(memory_thread, NewThread)
            /\ cleanup_thread' = Append(cleanup_thread, NewThread)
            /\ is_running' = TRUE
    /\ last' = Call("start", "", 0, "", 0)
    /\ UNCHANGED <<cfVars, now, max_cache_size, toVars, shutdown_event, gen>>

\* MLAgent.shutdown()
Shutdown ==
    /\ IF ~is_running
       THEN UNCHANGED <<models, model_cache, objs, is_running, shutdown_event>>
       ELSE /\ shutdown_event' = TRUE
            /\ SetManager(UnloadAll(MM), HandleRefs(syncEx))
            /\ is_running' = FALSE
    /\ last' = Call("shutdown", "", 0, "", 0)
    /\ UNCHANGED <<cfVars, now, max_cache_size, toVars, gen, memory_thread,
                   cleanup_thread>>

\* memory_optimization_loop of the i-th thread, one step: the test of the
\* while, or the body from time.sleep(60) on (enable_memory_optimization is
\* True): self.model_manager.optimize_memory(), then optimize_memory() of utils,
\* which raises when outcome is "error"
MemoryOptimizationLoop(i, outcome) ==
    /\ i \in 1..Len(memory_thread)
    /\ IF memory_thread[i].pc = "test"
       THEN /\ memory_thread' = [memory_thread EXCEPT ![i] = WhileTest(@)]
            /\ last' = NoCall
            /\ UNCHANGED <<models, model_cache, objs>>
       ELSE /\ memory_thread[i].pc = "sleep"
            /\ LET S == OptimizeMemory(MM, now)
                   err == IF outcome = "error" THEN "Exception" ELSE ""
               IN  /\ SetManager(S, HandleRefs(syncEx))
                   /\ last' = [Call("optimize_memory", "", 0, err, 0) EXCEPT
                                  !.arg = {n \in ConfigModelNames :
                                              DictHas(models, n) /\ ~DictHas(S.models, n)}]
                   /\ memory_thread' = [memory_thread EXCEPT ![i] = AfterBody(err)]
    /\ UNCHANGED <<cfVars, now, max_cache_size, toVars, is_running, shutdown_event, gen,
                   cleanup_thread>>

\* task_cleanup_loop of the i-th thread, one step: the test of the while, or
\* the body from time.sleep(300) on: clear_completed_tasks(max_age=3600)
TaskCleanupLoop(i) ==
    /\ i \in 1..Len(cleanup_thread)
    /\ IF cleanup_thread[i].pc = "test"
       THEN /\ cleanup_thread' = [cleanup_thread EXCEPT ![i] = WhileTest(@)]
            /\ last' = NoCall
            /\ UNCHANGED toVars
       ELSE /\ cleanup_thread[i].pc = "sleep"
            /\ ClearCompleted({CleanupMaxAge})
            /\ cleanup_thread' = [cleanup_thread EXCEPT ![i] = AfterBody(last'.err)]
    /\ UNCHANGED <<cfVars, now, mmVars, is_running, shutdown_event, gen, memory_thread>>

\* generate_text looks for a "text" model, generate_image for an "image" one
WantedModelType ==
    [text_generation |-> "text", image_generation |-> "image"]

GenerateCalls == DOMAIN WantedModelType

\* the name generate_text / generate_image is recorded under
GenOp(id) ==
    IF taskObj[id].name = "image_generation" THEN "generate_image" ELSE "generate_text"

\* generate_text(prompt) / generate_image(prompt), up to the polling loop:
\* the model_name search, then MLAgent.execute_task, which only creates the task
GenStart(task_name) ==
    LET op == IF task_name = "image_generation" THEN "generate_image"
              ELSE "generate_text"
        err == IF ~\E n \in ConfigModelNames : ConfigModels[n] = WantedModelType[task_name]
               THEN "ValueError"
               ELSE IF ~is_running THEN "RuntimeError"
               ELSE IF task_name \notin ConfigTaskNames THEN "ValueError"
               ELSE IF ConfigTasks[task_name].task_type \notin KnownTaskTypes
               THEN "ValueError"
               ELSE ""
    IN  /\ gen.pc = "idle"
        /\ IF err # ""
           THEN /\ last' = Call(op, task_name, 0, err, 0)
                /\ UNCHANGED <<toVars, gen>>
           ELSE /\ \E i \in TaskIds : taskObj[i].status = "none"
                /\ tasks' = tasks \cup {FreshId}
                /\ taskObj' = [taskObj EXCEPT ![FreshId] = NewTask(task_name)]
                /\ task_queue' = Append(task_queue, FreshId)
                /\ gen' = [pc |-> "poll", id |-> FreshId]
                /\ last' = NoCall
                /\ UNCHANGED <<running_tasks, completed_tasks, failed_tasks, syncEx,
                               asyncEx>>
        /\ UNCHANGED <<cfVars, now, mmVars, is_running, shutdown_event, memory_thread,
                       cleanup_thread>>

\* what one round of the polling loop comes to: get_task_result(task_id), which
\* is get_task_status (it calls task.result.to_dict(), and TaskResult has no
\* to_dict), then the test of status['status']
PollOutcome(id) ==
    IF id \notin tasks THEN "sleep"
    ELSE IF taskObj[id].result # {} THEN "AttributeError"
    ELSE IF taskObj[id].status = "failed" THEN "RuntimeError"
    ELSE IF taskObj[id].status = "completed" THEN "TypeError"
    ELSE "sleep"

\* the polling loop of generate_text / generate_image, one round
GenPoll ==
    /\ gen.pc = "poll"
    /\ IF PollOutcome(gen.id) = "sleep"
       THEN /\ gen' = [gen EXCEPT !.pc = "sleep"]
            /\ last' = NoCall
       ELSE /\ gen' = IdleGen
            /\ last' = Call(GenOp(gen.id), "", gen.id, PollOutcome(gen.id), 0)
    /\ UNCHANGED <<cfVars, now, mmVars, toVars, is_running, shutdown_event,
                   memory_thread, cleanup_thread>>

\* time.sleep(0.1) in the polling loop
GenSleep ==
    /\ gen.pc = "sleep"
    /\ gen' = [gen EXCEPT !.pc = "poll"]
    /\ last' = NoCall
    /\ UNCHANGED <<cfVars, now, mmVars, toVars, is_running, shutdown_event,
                   memory_thread, cleanup_thread>>

\* The agent, its threads, and a caller of task_orchestrator.execute_task
NextAgent ==
    \/ TaskTick
    \/ (~is_running => Len(memory_thread) < MaxStarts) /\ Start
    \/ Shutdown
    \/ \E i \in 1..MaxStarts, outcome \in LoopOutcomes : MemoryOptimizationLoop(i, outcome)
    \/ \E i \in 1..MaxStarts : TaskCleanupLoop(i)
    \/ \E task_name \in GenerateCalls :
          (is_running => Created < MaxTasks) /\ GenStart(task_name)
    \/ GenPoll
    \/ GenSleep
    \/ \E id \in RequestIds, kw \in Kwargs : ExecuteTask(id, kw)
    \/ \E id \in TaskIds : ExecuteGetModel(id)
    \/ \E id \in TaskIds, outcome \in Outcomes : ExecuteGenerate(id, outcome)

\* every thread that can take a step eventually takes one; nothing obliges
\* anyone to call start, shutdown, generate_* or task_orchestrator.execute_task
FairAgent ==
    /\ WF_vars(GenPoll)
    /\ WF_vars(GenSleep)
    /\ \A i \in 1..MaxStarts :
          WF_vars(\E outcome \in LoopOutcomes : MemoryOptimizationLoop(i, outcome))
    /\ \A i \in 1..MaxStarts : WF_vars(TaskCleanupLoop(i))
    /\ WF_vars(\E id \in TaskIds : ExecuteGetModel(id))
    /\ WF_vars(\E id \in TaskIds, outcome \in Outcomes : ExecuteGenerate(id, outcome))

SpecAgent == InitModels /\ [][NextAgent]_vars /\ FairAgent

\* The agent and its background threads alone
NextLoops ==
    \/ TaskTick
    \/ (~is_running => Len(memory_thread) < MaxStarts) /\ Start
    \/ Shutdown
    \/ \E i \in 1..MaxStarts, outcome \in LoopOutcomes : MemoryOptimizationLoop(i, outcome)
    \/ \E i \in 1..MaxStarts : TaskCleanupLoop(i)

\* every background thread that can take a step eventually takes one; nothing
\* obliges anyone to call start or shutdown
FairLoops ==
    /\ \A i \in 1..MaxStarts :
          WF_vars(\E outcome \in LoopOutcomes : MemoryOptimizationLoop(i, outcome))
    /\ \A i \in 1..MaxStarts : WF_vars(TaskCleanupLoop(i))

SpecLoops == InitModels /\ [][NextLoops]_vars /\ FairLoops

\* An agent whose models are used, a task created once the agent is started
\* and executed through the orchestrator, and the background threads; nobody
\* shuts the agent down or calls get_model but start() and the task
NextHandle ==
    \/ Tick
    \/ (~is_running => Len(memory_thread) < MaxStarts) /\ Start
    \/ \E name \in ConfigModelNames, outcome \in Outcomes : MMGenerate(name, outcome)
    \/ \E name \in RequestTaskNames :
          is_running /\ (Creatable(name) => Created < MaxTasks) /\ CreateTask(name)
    \/ \E id \in RequestIds, kw \in Kwargs : ExecuteTask(id, kw)
    \/ \E id \in TaskIds : ExecuteGetModel(id)
    \/ \E id \in TaskIds, outcome \in Outcomes : ExecuteGenerate(id, outcome)
    \/ \E i \in 1..MaxStarts, outcome \in LoopOutcomes : MemoryOptimizationLoop(i, outcome)
    \/ \E i \in 1..MaxStarts : TaskCleanupLoop(i)

SpecHandle == InitQueue /\ [][NextHandle]_vars

----------------------------------------------------------------------------
(* AgentConfig: from_dict, to_dict, save, from_file *)

\* Python values are written as their repr
None == "None"
TupleValue == "(512, 512)"
ListValue == "[512, 512]"

\* A dict whose keys are field names is [keys, val]: the keys it has, and the
\* value under each (val[f] for f outside keys is not part of the dict).
\* A dict keyed by model, task or parameter name is a sequence of entries k, v.

\* the fields of ModelConfig that are modelled
ModelFields == {"name", "model_type", "model_path", "max_length", "parameters"}
ModelRequired == {"name", "model_type", "model_path"}
\* the defaults of the dataclass ModelConfig
ModelDefaults ==
    [name |-> "", model_type |-> "", model_path |-> "", max_length |-> None,
     parameters |-> <<>>]

\* the fields of TaskConfig that are modelled
TaskFields == {"name", "task_type", "model_name", "timeout"}
TaskRequired == {"name", "task_type", "model_name"}
\* the defaults of the dataclass TaskConfig
TaskDefaults == [name |-> "", task_type |-> "", model_name |-> "", timeout |-> "300"]

\* the fields of AgentConfig that are modelled
AgentFields == {"agent_name", "log_file", "models", "tasks"}
\* the defaults of the dataclass AgentConfig
AgentDefaults ==
    [agent_name |-> "MLAgent", log_file |-> None, models |-> <<>>, tasks |-> <<>>]

\* cls(**data) of a dataclass: TypeError unless every required field is given;
\* a field that is not given takes its default
Dataclass(d, fields, required, defaults) ==
    IF ~(required \subseteq d.keys)
    THEN [err |-> "TypeError"]
    ELSE [err |-> "",
          val |-> [f \in fields |-> IF f \in d.keys THEN d.val[f] ELSE defaults[f]]]

\* {name: Cls(**data) for name, data in entries}: [err, val]
BuildEach(entries, fields, required, defaults) ==
    IF \E i \in 1..Len(entries) :
          Dataclass(entries[i].v, fields, required, defaults).err # ""
    THEN [err |-> "TypeError"]
    ELSE [err |-> "",
          val |-> [i \in 1..Len(entries) |->
                     [k |-> entries[i].k,
                      v |-> Dataclass(entries[i].v, fields, required, defaults).val]]]

\* config_data.get(key, {})
GetOrEmpty(d, key) == IF key \in d.keys THEN d.val[key] ELSE <<>>

\* AgentConfig.from_dict(config_data): [err, val]
FromDict(d) ==
    LET ms == BuildEach(GetOrEmpty(d, "models"), ModelFields, ModelRequired,
                        ModelDefaults)
        ts == BuildEach(GetOrEmpty(d, "tasks"), TaskFields, TaskRequired, TaskDefaults)
    IN  IF ms.err # "" THEN [err |-> ms.err]
        ELSE IF ts.err # "" THEN [err |-> ts.err]
        ELSE Dataclass([keys |-> d.keys \cup {"models", "tasks"},
                        val |-> [d.val EXCEPT !.models = ms.val, !.tasks = ts.val]],
                       AgentFields, {}, AgentDefaults)

\* to_dict, the entry it writes for a model
ModelToDict(m) ==
    [keys |-> ModelFields,
     val |-> [name |-> m.name, model_type |-> m.model_type, model_path |-> m.model_path,
              max_length |-> m.max_length, parameters |-> m.parameters]]

\* to_dict, the entry it writes for a task
TaskToDict(t) ==
    [keys |-> TaskFields,
     val |-> [name |-> t.name, task_type |-> t.task_type, model_name |-> t.model_name,
              timeout |-> t.timeout]]

\* AgentConfig.to_dict()
ToDict(c) ==
    [keys |-> AgentFields,
     val |-> [agent_name |-> c.agent_name, log_file |-> c.log_file,
              models |-> [i \in 1..Len(c.models) |->
                            [k |-> c.models[i].k, v |-> ModelToDict(c.models[i].v)]],
              tasks |-> [i \in 1..Len(c.tasks) |->
                           [k |-> c.tasks[i].k, v |-> TaskToDict(c.tasks[i].v)]]]]

\* the values under 'parameters' in the models of a dict
ParameterValues(d) ==
    UNION {{d.val.models[i].v.val.parameters[j].v :
               j \in 1..Len(d.val.models[i].v.val.parameters)} :
           i \in 1..Len(d.val.models)}

\* json.dump then json.load of a value: a tuple is written as an array and
\* read back as a list
JsonValue(v) == IF v = TupleValue THEN ListValue ELSE v

\* json.dump then json.load of the dict to_dict returns
JsonRoundTrip(d) ==
    [d EXCEPT !.val.models =
        [i \in 1..Len(@) |->
            [@[i] EXCEPT !.v.val.parameters =
                [j \in 1..Len(@) |-> [@[j] EXCEPT !.v = JsonValue(@)]]]]]

\* the suffixes of the paths configurations are saved to
Suffixes == {".yaml", ".json"}

\* AgentConfig.save(config_path): yaml.dump for .yaml and .yml, json.dump otherwise
SavedFile(c, suffix) == [err |-> "", suffix |-> suffix, doc |-> ToDict(c)]

\* AgentConfig.from_file(config_path): yaml.safe_load or json.load, then
\* from_dict. yaml.dump writes a tuple under the tag python/tuple, which
\* safe_load refuses with a ConstructorError
FromFile(f) ==
    IF f.suffix = ".yaml"
    THEN IF TupleValue \in ParameterValues(f.doc)
         THEN [err |-> "ConstructorError"]
         ELSE FromDict(f.doc)
    ELSE FromDict(JsonRoundTrip(f.doc))

\* the 'parameters' a configuration gives a model
ParameterChoices ==
    {<<>>, <<[k |-> "size", v |-> TupleValue]>>, <<[k |-> "size", v |-> ListValue]>>}

\* the dicts a model is configured with: every field, the required fields
\* only, or no model_path
ModelDicts ==
    {[keys |-> ks,
      val |-> [name |-> "GPT-2", model_type |-> "text", model_path |-> "gpt2",
               max_length |-> ml, parameters |-> ps]] :
        ks \in {ModelFields, ModelRequired, ModelRequired \ {"model_path"}},
        ml \in {None, "50"}, ps \in ParameterChoices}

\* the dicts a task is configured with: its model is configured or is not
TaskDicts ==
    {[keys |-> ks,
      val |-> [name |-> "Text Generation", task_type |-> "text_generation",
               model_name |-> mn, timeout |-> "60"]] :
        ks \in {TaskFields, TaskRequired}, mn \in {"gpt2", "missing"}}

\* the dicts from_dict is called with
ConfigDicts ==
    {[keys |-> ks,
      val |-> [agent_name |-> an, log_file |-> None, models |-> ms, tasks |-> ts]] :
        ks \in {AgentFields, {"models", "tasks"}, {"agent_name"}},
        an \in {"MLAgent", "Custom"},
        ms \in {<<>>} \cup {<<[k |-> "gpt2", v |-> md]>> : md \in ModelDicts},
        ts \in {<<>>} \cup {<<[k |-> "text_generation", v |-> td]>> : td \in TaskDicts}}

\* the dict of load_default_config
DefaultConfigData ==
    [keys |-> {"agent_name", "models", "tasks"},
     val |-> [agent_name |-> "MLAgent", log_file |-> None,
              models |-> <<[k |-> "gpt2",
                            v |-> [keys |-> ModelRequired,
                                   val |-> [name |-> "GPT-2", model_type |-> "text",
                                            model_path |-> "gpt2", max_length |-> None,
                                            parameters |-> <<>>]]]>>,
              tasks |-> <<[k |-> "text_generation",
                           v |-> [keys |-> TaskFields,
                                  val |-> [name |-> "Text Generation",
                                           task_type |-> "text_generation",
                                           model_name |-> "gpt2",
                                           timeout |-> "60"]]]>>]]

\* everything but the configuration
restVars == <<now, mmVars, toVars, agVars>>

\* load_default_config()
LoadDefaultConfig ==
    /\ config.err = "none"
    /\ config' = FromDict(DefaultConfigData)
    /\ last' = Call("load_default_config", "", 0, "", 0)
    /\ UNCHANGED <<restVars, config_file, loaded>>

\* AgentConfig.from_dict(config_data), the configuration an agent is built with
BuildConfig(d) ==
    /\ config.err = "none"
    /\ LET r == FromDict(d)
       IN  /\ config' = IF r.err = "" THEN r ELSE config
           /\ last' = Call("from_dict", "", 0, r.err, 0)
    /\ UNCHANGED <<restVars, config_file, loaded>>

\* AgentConfig.from_dict(config.to_dict())
ToDictFromDict ==
    /\ config.err = ""
    /\ loaded' = FromDict(ToDict(config.val))
    /\ last' = Call("to_dict", "", 0, "", 0)
    /\ UNCHANGED <<restVars, config, config_file>>

\* config.save(path)
Save(suffix) ==
    /\ config.err = ""
    /\ config_file' = SavedFile(config.val, suffix)
    /\ last' = Call("save", suffix, 0, "", 0)
    /\ UNCHANGED <<restVars, config, loaded>>

\* AgentConfig.from_file(path) of the file save wrote
LoadFile ==
    /\ config_file.err = ""
    /\ loaded' = FromFile(config_file)
    /\ last' = Call("from_file", config_file.suffix, 0, FromFile(config_file).err, 0)
    /\ UNCHANGED <<restVars, config, config_file>>

NextConfig ==
    \/ LoadDefaultConfig
    \/ \E d \in ConfigDicts : BuildConfig(d)
    \/ ToDictFromDict
    \/ \E suffix \in Suffixes : Save(suffix)
    \/ LoadFile

\* a configuration is built, converted, saved and read back
SpecConfig == InitModels /\ [][NextConfig]_vars

----------------------------------------------------------------------------
(* Claims about the ModelManager, under SpecModels *)

\* C1 (as stated): in every reachable state the active set holds at most
\* max_cache_size models.
C1_ActiveWithinCeiling == Len(models) <= max_cache_size

\* the active entry with name n
ActiveObj(n) == objs[DictValue(models, n)]

\* get_model(name) is called for a name it can construct, neither active nor
\* cached, while the active set holds exactly max_cache_size models
C4_Case(name) ==
    /\ name \in ConfigModelNames
    /\ ConfigModels[name] \in KnownModelTypes
    /\ ~DictHas(models, name)
    /\ ~DictHas(model_cache, name)
    /\ Len(models) = max_cache_size
    /\ last'.op = "get_model"
    /\ last'.name = name

\* C4: in that case exactly one model e leaves the active set, e has the least
\* last_used of the active models (never used counting as 0), e is placed in
\* the cached set (the same instance), name becomes active, and with a ceiling
\* of 1 get_loaded_models() is exactly [name].
C4_EvictsLeastRecentlyUsed ==
    [][\A name \in ConfigModelNames :
          C4_Case(name) =>
             /\ \E e \in DictKeys(models) :
                   /\ DictKeys(models') = (DictKeys(models) \ {e}) \cup {name}
                   /\ \A o \in DictKeys(models) :
                         LastUsedOrZero(ActiveObj(e)) <= LastUsedOrZero(ActiveObj(o))
                   /\ DictKeys(model_cache') = DictKeys(model_cache) \cup {e}
                   /\ DictValue(model_cache', e) = DictValue(models, e)
             /\ Len(models') = Len(models)
             /\ last'.err = ""
             /\ DictValue(models', name) = last'.val
             /\ (max_cache_size = 1 => DictKeyList(models') = <<name>>)
      ]_vars

\* C4 witness: with a ceiling of 2, the last call constructed last.name, the
\* model in the cache has been used, and the model that stayed active was used
\* later than it
C4_Witness ==
    /\ max_cache_size = 2
    /\ last.op = "get_model" /\ last.err = ""
    /\ Len(models) = 2 /\ models[2].k = last.name
    /\ objs[last.val].last_used = {}
    /\ Len(model_cache) = 1
    /\ objs[model_cache[1].v].last_used # {}
    /\ LastUsedOrZero(objs[model_cache[1].v]) < LastUsedOrZero(objs[models[1].v])

\* C5: no model name is in both the active and the cached set, and no instance
\* is held twice by the manager.
C5_ActiveCachedDisjoint ==
    /\ DictKeys(models) \cap DictKeys(model_cache) = {}
    /\ Cardinality(DictKeys(models)) = Len(models)
    /\ Cardinality(DictKeys(model_cache)) = Len(model_cache)
    /\ Cardinality(DictValues(models) \cup DictValues(model_cache))
          = Len(models) + Len(model_cache)

\* C5 witness: a model was evicted to the cache and another was promoted back
C5_Witness ==
    /\ Len(models) = 2 /\ Len(model_cache) = 1
    /\ last.op = "get_model" /\ last.err = ""
    /\ objs[last.val].last_used # {}
    /\ ~objs[last.val].is_loaded

\* C11 (as stated): after unload_model(name) returns, name is in neither the
\* active set nor the cached set.
C11_UnloadRemovesFromBoth ==
    [][last'.op = "unload_model" =>
          /\ ~DictHas(models', last'.name)
          /\ ~DictHas(model_cache', last'.name)
      ]_vars

\* C12 (as stated): when get_model(name) returns for a configured name that
\* was neither active nor cached, the instance it returns is loaded and is in
\* the active set.
C12_NewInstanceIsLoaded ==
    [][\A name \in ConfigModelNames :
          (Constructs(MM, name) /\ last'.op = "get_model" /\ last'.name = name) =>
             /\ last'.err = ""
             /\ DictHas(models', name)
             /\ DictValue(models', name) = last'.val
             /\ objs'[last'.val].is_loaded
      ]_vars

\* C16: a get_model(name) that returns leaves name active under the instance it
\* returned; a step that keeps name active keeps its instance; and get_model
\* of an active name returns that instance, constructs nothing and changes
\* neither the active nor the cached set.
C16_GetModelIsStable ==
    [][/\ (last.op = "get_model" /\ last.err = "") =>
             DictHas(models, last.name) /\ DictValue(models, last.name) = last.val
       /\ \A name \in ConfigModelNames :
             (DictHas(models, name) /\ DictHas(models', name)) =>
                DictValue(models', name) = DictValue(models, name)
       /\ \A name \in ConfigModelNames :
             (DictHas(models, name) /\ last'.op = "get_model" /\ last'.name = name) =>
                /\ last'.err = ""
                /\ last'.val = DictValue(models, name)
                /\ UNCHANGED <<models, model_cache, objs>>
      ]_vars

\* C16 witness: get_model has returned an instance that is loaded and has been
\* used, so the name was active when it was called
C16_Witness ==
    /\ last.op = "get_model" /\ last.err = ""
    /\ objs[last.val].is_loaded
    /\ objs[last.val].last_used # {}
    /\ DictValue(models, last.name) = last.val

C23_PromotesCachedInstance ==
    [][\A name \in ConfigModelNames :
          (/\ last'.op = "get_model" /\ last'.name = name
           /\ DictHas(model_cache, name) /\ ~DictHas(models, name)) =>
             /\ last'.err = ""
             /\ last'.val = DictValue(model_cache, name)
             /\ model_cache' = DictDel(model_cache, name)
             /\ DictHas(models', name) /\ DictValue(models', name) = last'.val
             /\ objs' = objs
      ]_vars

\* C23 witness: get_model has returned an instance that was used and is not
\* loaded, which only an evicted instance is, and the name is active again
C23_Witness ==
    /\ last.op = "get_model" /\ last.err = ""
    /\ ~objs[last.val].is_loaded
    /\ objs[last.val].last_used # {}
    /\ DictHas(models, last.name) /\ DictValue(models, last.name) = last.val
    /\ ~DictHas(model_cache, last.name)

\* C22: optimize_memory() unloads every active model whose last_used is more
\* than 300 seconds old and removes it from the active set; the models used
\* within 300 seconds or never used stay active with their instances as they
\* were, the cached set is unchanged, and afterwards no active model is idle.
C22_OptimizeMemory ==
    [][last'.op = "optimize_memory" =>
          /\ model_cache' = model_cache
          /\ \A i \in 1..Len(models) :
                IF IsIdle(objs[models[i].v], now)
                THEN /\ ~DictHas(models', models[i].k)
                     /\ ~objs'[models[i].v].is_loaded
                ELSE /\ DictHas(models', models[i].k)
                     /\ DictValue(models', models[i].k) = models[i].v
                     /\ objs'[models[i].v] = objs[models[i].v]
          /\ \A i \in 1..Len(models') :
                /\ DictHas(models, models'[i].k)
                /\ ~IsIdle(objs'[models'[i].v], now)
      ]_vars

\* C22 witness: optimize_memory has unloaded an idle model and has left another
\* model active, beside a non-empty cached set
C22_Witness ==
    /\ last.op = "optimize_memory" /\ last.arg # {}
    /\ models # <<>>
    /\ model_cache # <<>>

----------------------------------------------------------------------------
(* Claims about the TaskOrchestrator, under SpecTasks *)

\* C2 (as stated): a task that has reached a terminal status never changes
\* status again (until the task object is dropped).
C2_TerminalIsFinal ==
    [][\A id \in TaskIds :
          taskObj[id].status \in Terminal =>
             taskObj'[id].status \in {taskObj[id].status, "gone"}
      ]_vars

\* C6 (as stated): for any task id at most one execution of the task is in
\* progress: the caller of execute_task(id) and the executor thread of
\* _execute_task_async are never both inside task.execute.
C6_OneExecutionAtATime ==
    \A id \in TaskIds : ~(syncEx.id = id /\ asyncEx[id] = "started")

\* C7 (as stated): execute_task(id) on a task whose status is completed,
\* failed or cancelled returns the stored result and changes no task status,
\* bucket or model-manager state (so it does not enter task.execute).
C7_TerminalReplay ==
    [][\A id \in TaskIds :
          (id \in tasks /\ taskObj[id].status \in Terminal
           /\ \E kw \in Kwargs : ExecuteTask(id, kw)) =>
             /\ last'.op = "execute_task" /\ last'.id = id /\ last'.err = ""
             /\ last'.res = taskObj[id].result
             /\ UNCHANGED <<mmVars, toVars>>
      ]_vars

\* the step of execute_task(id) in which the model call raises
C8_Case(id) ==
    /\ syncEx.pc = "got_model" /\ syncEx.id = id
    /\ syncEx'.pc = "idle"
    /\ \E r \in last'.res : r.error = "Exception"

\* C8: a pending task is in neither bucket; and when the model call raises
\* inside execute_task, the call returns (does not raise) a TaskResult of status
\* failed that carries the error, the task's status is failed, and the id is
\* added to failed_tasks, which gains nothing else, and not to completed_tasks.
C8_ModelFailureIsFiled ==
    [][/\ \A id \in TaskIds :
             taskObj[id].status = "pending" =>
                id \notin failed_tasks /\ ~SeqHas(completed_tasks, id)
       /\ \A id \in TaskIds :
             C8_Case(id) =>
                /\ last'.op = "execute_task" /\ last'.id = id /\ last'.err = ""
                /\ last'.res = {TaskResult(id, "failed", "", "Exception")}
                /\ taskObj'[id].status = "failed"
                /\ taskObj'[id].result = last'.res
                /\ failed_tasks' = failed_tasks \cup {id}
                /\ completed_tasks' = completed_tasks
      ]_vars

\* C8 witness: execute_task has returned a failed result for a model call that
\* raised, and the task is filed as failed only
C8_Witness ==
    /\ last.op = "execute_task" /\ last.err = ""
    /\ last.res = {TaskResult(last.id, "failed", "", "Exception")}
    /\ last.id \in failed_tasks
    /\ ~SeqHas(completed_tasks, last.id)
    /\ Cardinality(failed_tasks) = 1

\* C9: cancel_task(id) on an id not in the running set returns False and
\* changes nothing; on an id in the running set it returns True, the task's
\* status becomes cancelled, the id leaves the running set and is in the
\* completed bucket.
C9_CancelTask ==
    [][\A id \in RequestIds :
          (last'.op = "cancel_task" /\ last'.id = id) =>
             IF id \notin running_tasks
             THEN last'.val = 0 /\ UNCHANGED <<now, mmVars, toVars, agVars>>
             ELSE /\ last'.val = 1
                  /\ taskObj'[id].status = "cancelled"
                  /\ id \notin running_tasks'
                  /\ SeqHas(completed_tasks', id)
      ]_vars

\* C9 witness: a running task has been cancelled
C9_Witness ==
    /\ last.op = "cancel_task" /\ last.val = 1
    /\ taskObj[last.id].status = "cancelled"
    /\ last.id \notin running_tasks
    /\ SeqHas(completed_tasks, last.id)

\* C10 (as stated): clear_completed_tasks(max_age=0) removes every task in the
\* completed bucket from the bucket and from the registry, as
\* clear_completed_tasks(max_age=None) does.
C10_ClearZeroClearsAll ==
    [][(last'.op = "clear_completed_tasks" /\ last'.arg = {0} /\ last'.err = "") =>
          /\ completed_tasks' = <<>>
          /\ tasks' \cap SeqSet(completed_tasks) = {}
      ]_vars

\* C20: when execute_task runs a task whose input validate_input refuses (a
\* generation task with a missing, non-string or blank prompt, a
\* classification task with neither text nor image), the call does not raise:
\* it returns the failed result that carries the validation message, the task
\* is failed, and the model manager is as it was (get_model is not called).
C20_InvalidInputFails ==
    [][\A id \in TaskIds :
          (/\ syncEx.pc = "started" /\ syncEx.id = id /\ syncEx' # syncEx
           /\ ~ValidInput(ConfigTasks[taskObj[id].name].task_type, syncEx.kw)) =>
             /\ last'.op = "execute_task" /\ last'.id = id /\ last'.err = ""
             /\ taskObj'[id].status = "failed"
             /\ last'.res = taskObj'[id].result
             /\ last'.res =
                   {TaskResult(id, "failed", "",
                               ValidationMessage(ConfigTasks[taskObj[id].name].task_type,
                                                 syncEx.kw))}
             /\ id \in failed_tasks'
             /\ UNCHANGED mmVars
      ]_vars

\* execute_task has returned the failed result of a classification task that
\* was given neither text nor image
C20_Witness ==
    /\ last.op = "execute_task" /\ last.err = ""
    /\ last.id \in failed_tasks
    /\ taskObj[last.id].name = "classify"
    /\ \E r \in last.res : r.error = "Must provide either 'text' or 'image' input"

\* C25 (as stated): in every reachable state every task id in running_tasks,
\* completed_tasks or failed_tasks and every task in task_queue is in the
\* registry tasks.
C25_BucketsInRegistry ==
    /\ running_tasks \subseteq tasks
    /\ failed_tasks \subseteq tasks
    /\ \A i \in 1..Len(completed_tasks) : completed_tasks[i] \in tasks
    /\ \A i \in 1..Len(task_queue) : task_queue[i] \in tasks

\* C26 (as stated): execute is invoked at most once on a task, so no
\* execution, by execute_task or by the executor thread of execute_tasks_async,
\* begins on a task that holds the result of an earlier execution.
C26_ExecutedAtMostOnce ==
    [][\A id \in TaskIds :
          (\/ syncEx.pc = "idle" /\ syncEx'.pc = "started" /\ syncEx'.id = id
           \/ asyncEx[id] = "scheduled" /\ asyncEx'[id] = "started") =>
             taskObj[id].result = {}
      ]_vars

----------------------------------------------------------------------------
(* Claims about the task queue, under SpecQueue *)

\* C27 (as stated): in every reachable state completed_tasks and failed_tasks
\* are disjoint, every task in failed_tasks has status failed, and every task
\* in completed_tasks has status completed or cancelled.
C27_BucketsMatchStatus ==
    /\ \A i \in 1..Len(completed_tasks) :
          /\ completed_tasks[i] \notin failed_tasks
          /\ taskObj[completed_tasks[i]].status \in {"completed", "cancelled"}
    /\ \A id \in failed_tasks : taskObj[id].status = "failed"

\* C13: create_task of a configured name of a known task type returns an id
\* no task has had, adds that id to the registry and to the tail of the queue
\* with a new task of status pending, and leaves running_tasks,
\* completed_tasks, failed_tasks, the executions under way, every other task
\* and the model manager as they were.
C13_CreateTaskFrame ==
    [][(last'.op = "create_task" /\ Creatable(last'.name)) =>
          LET id == last'.id
          IN  /\ last'.err = ""
              /\ id \in TaskIds
              /\ id \notin tasks
              /\ taskObj[id].status = "none"
              /\ tasks' = tasks \cup {id}
              /\ task_queue' = Append(task_queue, id)
              /\ taskObj'[id] = NewTask(last'.name)
              /\ \A j \in TaskIds \ {id} : taskObj'[j] = taskObj[j]
              /\ UNCHANGED <<running_tasks, completed_tasks, failed_tasks, syncEx,
                             asyncEx, mmVars>>
      ]_vars

\* C13 witness: a second task has been created behind one still queued
C13_Witness ==
    /\ last.op = "create_task" /\ last.err = ""
    /\ Len(task_queue) = 2
    /\ task_queue[2] = last.id
    /\ taskObj[last.id].status = "pending"
    /\ Cardinality(tasks) = 2

\* C14: create_task of a name absent from the configuration, or of a configured
\* name whose task_type _create_task_instance does not know, raises ValueError
\* and leaves the registry, the queue, the buckets and every task as they were.
C14_CreateTaskRejects ==
    [][(last'.op = "create_task" /\ ~Creatable(last'.name)) =>
          /\ last'.err = "ValueError"
          /\ UNCHANGED <<toVars, mmVars>>
      ]_vars

\* C14 witness: create_task of the task of unknown type has raised in an
\* orchestrator that holds a task
C14_Witness ==
    /\ last.op = "create_task" /\ last.err = "ValueError"
    /\ last.name \in ConfigTaskNames
    /\ tasks # {}
    /\ Len(task_queue) = 1

----------------------------------------------------------------------------
(* Claims about the dispatch of tasks, under SpecDispatch *)

\* C21 (as stated): in every reachable state running_tasks holds at most
\* max_concurrent_tasks tasks.
C21_RunningWithinCeiling == Cardinality(running_tasks) <= max_concurrent_tasks

----------------------------------------------------------------------------
(* Claims about the MLAgent, under SpecAgent *)

\* C3 (as stated): every call of generate_text or generate_image that is in
\* its polling loop on a running agent eventually ends, by returning or by
\* raising (or the agent is shut down under it).
C3_GenerateTerminates ==
    (gen.pc # "idle" /\ is_running) ~> (gen.pc = "idle" \/ ~is_running)

\* C15: when shutdown() returns on a running agent, is_running is false, the
\* shutdown event is set, the active and the cached set are empty, and every
\* instance that was in either is unloaded.
C15_ShutdownUnloadsAll ==
    [][(is_running /\ last'.op = "shutdown") =>
          /\ ~is_running'
          /\ shutdown_event'
          /\ models' = <<>>
          /\ model_cache' = <<>>
          /\ \A r \in ManagerRefs(MM) : ~objs'[r].is_loaded
      ]_vars

\* C15 witness: shutdown has returned on an agent that was running
C15_Witness ==
    /\ last.op = "shutdown"
    /\ shutdown_event /\ ~is_running
    /\ models = <<>> /\ model_cache = <<>>

\* C28 (as stated): a task that obtained a handle from get_model does not load
\* a model the manager no longer tracks: when its model call loads the
\* instance and completes, the instance is in the active set.
C28_TaskLoadsTrackedModel ==
    [][\A id \in TaskIds :
          (/\ syncEx.pc = "got_model" /\ syncEx.id = id /\ syncEx'.pc = "idle"
           /\ ~objs[syncEx.ref].is_loaded
           /\ taskObj'[id].status = "completed") =>
             syncEx.ref \in DictValues(models)
      ]_vars

\* the i-th thread of a background loop has caught an exception in its last
\* iteration and shutdown has not been signalled
Caught(thread, i) ==
    i <= Len(thread) /\ thread[i].err # "" /\ ~shutdown_event

\* the i-th thread is in a further iteration of its loop
Iterating(thread, i) == i <= Len(thread) /\ thread[i].pc = "sleep"

\* the i-th thread has finished an iteration and is in its loop
Iterated(thread, i) == i <= Len(thread) /\ thread[i].pc = "test"

C29_NoMaintenanceAfterShutdown ==
    [][(shutdown_event /\ ~is_running) =>
          last'.op \notin {"optimize_memory", "clear_completed_tasks"}
      ]_vars

\* C30 (as stated): whenever is_running is true, the threads of both
\* background loops that start() started last are alive.
C30_LoopsAliveWhileRunning ==
    is_running =>
       /\ memory_thread # <<>> /\ memory_thread[Len(memory_thread)].pc # "done"
       /\ cleanup_thread # <<>> /\ cleanup_thread[Len(cleanup_thread)].pc # "done"

----------------------------------------------------------------------------
(* Claims about AgentConfig, under SpecConfig *)

\* C18 (as stated): in every configuration that has been built, the
\* model_name of each task is a key of the models mapping.
C18_TasksReferToModels ==
    config.err = "" =>
       \A i \in 1..Len(config.val.tasks) :
          \E j \in 1..Len(config.val.models) :
             config.val.models[j].k = config.val.tasks[i].v.model_name

\* C19 (as stated): what from_dict(c.to_dict()) returns, and what from_file
\* returns for the file c.save wrote, is a configuration equal to c field for
\* field.
C19_RoundTrip ==
    loaded.err # "none" => (loaded.err = "" /\ loaded.val = config.val)

====
